---- MODULE Spec2Model ----
(***************************************************************************)
(* A model of the hermes gateway (Kodylow/hermes): the payment watchers    *)
(* and startup recovery of src/src/invoice.rs, the registration path of    *)
(* src/src/register.rs and the signed control endpoints of                 *)
(* src/src/routes.rs.  The store (db), the federation registry (mm) and    *)
(* the lnurl callback/verify functions are collaborators whose code is not *)
(* part of the sources at hand; they are modelled from their contracts.    *)
(***************************************************************************)
EXTENDS Integers, Sequences, FiniteSets, TLC

\* ------------------------------------------------------------------------
\* Bounds of the model
\* ------------------------------------------------------------------------
MaxInvoices == 1
MaxRows == 3
MaxRestarts == 1
MaxTicks == 1
MaxRequests == 2

\* ------------------------------------------------------------------------
\* Program constants
\* ------------------------------------------------------------------------
\* InvoiceState, #[repr(i32)]
Pending == 0
Settled == 1
Cancelled == 2

\* ------------------------------------------------------------------------
\* Small helpers
\* ------------------------------------------------------------------------
Range(s) == {s[i] : i \in DOMAIN s}


\* All orderings of a finite set, as sequences without repetition.
Perms(S) ==
  {p \in [1..Cardinality(S) -> S] : \A i, j \in DOMAIN p : i # j => p[i] # p[j]}

\* ------------------------------------------------------------------------
\* Federations and connection strings
\* ------------------------------------------------------------------------
DefaultFederation == "fed_d"
Federations == {"fed_d", "fed_a"}

\* A connection string is <<"fed1", federation id, peer>> when well formed;
\* any other sequence does not parse.
NoInvite == [federation_id |-> "", peer |-> ""]

InviteCode_from_str(s) ==
  IF Len(s) = 3 /\ s[1] = "fed1" /\ s[2] \in Federations
  THEN [federation_id |-> s[2], peer |-> s[3]]
  ELSE NoInvite

InviteCode_to_string(ic) == <<"fed1", ic.federation_id, ic.peer>>

InviteStrings ==
  {<<"fed1", "fed_d", "0">>, <<"fed1", "fed_a", "0">>, <<"junk">>}

\* FederationId::from_str on the text stored in a row
FederationId_from_str(s) == IF s \in Federations THEN s ELSE ""

\* ------------------------------------------------------------------------
\* State
\* ------------------------------------------------------------------------
VARIABLES
  users,      \* store: app_user table, a sequence of account rows
  invoices,   \* store: invoice table, a sequence of payment rows (id = index)
  joined,     \* federation registry: identifiers with a handle
  joinCalls,  \* per federation: register_new_federation calls issued
  handles,    \* per federation: handles created by successful joins
  opState,    \* per operation id: the federation's state of the operation
  watch,      \* watcher tasks, by row and by who spawned them
  notified,   \* per row: successful notify_user deliveries so far
  rec,        \* the startup recovery task
  now,        \* wall clock
  restarts,   \* process restarts so far
  slots,      \* in-flight and finished request handlers
  requests,   \* requests accepted so far
  response    \* the request answered last, with its response

vars == <<users, invoices, joined, joinCalls, handles, opState, watch, notified,
          rec, now, restarts, slots, requests, response>>


Rows == 1..MaxRows
Slots == 1..MaxRequests
Origins == {"callback", "recovery"}
Events == {"Claimed", "Canceled"}

\* A signed event (nostr Event): author, kind, created_at, content, and
\* whether id and signature verify
NoEvent == [author |-> "", kind |-> 0, created_at |-> 0, content |-> <<>>,
            sig_ok |-> FALSE]
\* The query string of a callback request: the amount parameter, if given,
\* as the text sent
NoQuery == [given |-> FALSE, amount |-> <<>>]
\* A request handler in flight: the endpoint, where it stands, its request,
\* the locals it has computed, whether it has called the store (db) and, for
\* change_federation, the federations the registry held when it was called
NoSlot == [op |-> "none", pc |-> "idle", paid |-> FALSE, name |-> <<>>,
           pubkey |-> "", invite |-> <<>>, fed |-> "", ev |-> NoEvent,
           db |-> FALSE, query |-> NoQuery, op_id |-> 0, joined0 |-> {}]
NoBody == [name |-> <<>>, federation_id |-> "", disabled_zaps |-> FALSE,
           available |-> FALSE, settled |-> FALSE]
NoResponse == [req |-> NoSlot, res |-> "none", why |-> "", body |-> NoBody]

\* A watcher task: where it stands and what it did last (an event of no
\* interest passed over or, once it has ended, how it ended)
NoWatcher == [pc |-> "none", out |-> "none"]
NewWatcher == [pc |-> "stream", out |-> "none"]
DoneWatcher(out) == [pc |-> "done", out |-> out]
IdleRecovery == [pc |-> "idle", todo |-> <<>>, cur |-> "", seen |-> {},
                 lookups |-> [f \in Federations |-> 0], subErr |-> {}]

\* ------------------------------------------------------------------------
\* The store (db) and the federation registry (mm), from their contracts
\* ------------------------------------------------------------------------
\* set_invoice_state that writes the row anew, its amount cleared
set_invoice_state_rewriting(invs, id, st) ==
  [invs EXCEPT ![id].state = st, ![id].amount = 0]

\* db.set_invoice_state: writes the state column of the row with that id
set_invoice_state(invs, id, st) == [invs EXCEPT ![id].state = st]

\* db.get_pending_invoices: the rows whose state is Pending
PendingRows(invs) == {i \in DOMAIN invs : invs[i].state = Pending}

\* mm.check_has_federation / mm.get_federation_client
check_has_federation(f) == f \in joined
get_federation_client(f) == f \in joined

\* Bolt11Invoice::is_expired, by wall clock
is_expired(bolt11, t) == t > bolt11.expires_at

\* ------------------------------------------------------------------------
\* The federation: an operation is open until it is Claimed or Canceled
\* ------------------------------------------------------------------------
Terminal(st) == st \in {"Claimed", "Canceled"}

FedEmit(op, e) ==
  /\ op \in DOMAIN invoices
  /\ ~Terminal(opState[op])
  \* an expired payment request can no longer be paid
  /\ e = "Claimed" => ~is_expired(invoices[op].bolt11, now)
  /\ opState' = [opState EXCEPT ![op] = e]
  /\ UNCHANGED <<users, invoices, joined, joinCalls, handles, watch, notified,
                 rec, now, restarts, slots, requests, response>>

Tick ==
  /\ now < MaxTicks
  /\ now' = now + 1
  /\ UNCHANGED <<users, invoices, joined, joinCalls, handles, opState, watch,
                 notified, rec, restarts, slots, requests, response>>

\* ------------------------------------------------------------------------
\* Payment watchers (spawn_invoice_subscription, notify_user)
\* ------------------------------------------------------------------------
Live(w) == w.pc \in {"stream", "notify", "persist"}

\* One turn of `while let Some(op_state) = stream.next().await`: the match on
\* the state received.  Canceled writes Cancelled and breaks; Claimed goes on
\* to notify_user; any other state (Created, WaitingForPayment, Funded,
\* AwaitingFunds) falls through `_ => {}` and the loop goes on.  A stream
\* yields the operation's terminal state once the federation has reached it.
StreamItems(op) ==
  {"Other"} \cup (IF Terminal(opState[op]) THEN {opState[op]} ELSE {})

\* WatcherEvent with Canceled handled as Claimed is
WatcherEvent_cancel_notifies(r, o) ==
  LET w == watch[r][o] IN
  /\ w.pc = "stream"
  /\ \E e \in StreamItems(r) :
       \/ /\ e \in {"Canceled", "Claimed"}
          /\ watch' = [watch EXCEPT ![r][o] = [pc |-> "notify", out |-> "none"]]
          /\ UNCHANGED invoices
       \/ /\ e \notin {"Canceled", "Claimed"}
          /\ watch' = [watch EXCEPT ![r][o].out = "other"]
          /\ UNCHANGED invoices
  /\ UNCHANGED <<users, joined, joinCalls, handles, opState, notified, rec, now,
                 restarts, slots, requests, response>>

\* WatcherEvent with a loop that ends on any event
WatcherEvent_other_breaks(r, o) ==
  LET w == watch[r][o] IN
  /\ w.pc = "stream"
  /\ \E e \in StreamItems(r) :
       \/ /\ e = "Canceled"
          /\ \E ok \in BOOLEAN :
               /\ invoices' = IF ok THEN set_invoice_state(invoices, r, Cancelled)
                               ELSE invoices
               /\ watch' = [watch EXCEPT ![r][o] =
                     DoneWatcher(IF ok THEN "cancelled" ELSE "cancel_err")]
       \/ /\ e = "Claimed"
          /\ watch' = [watch EXCEPT ![r][o] = [pc |-> "notify", out |-> "none"]]
          /\ UNCHANGED invoices
       \/ /\ e \notin {"Canceled", "Claimed"}
          /\ watch' = [watch EXCEPT ![r][o] = DoneWatcher("other")]
          /\ UNCHANGED invoices
  /\ UNCHANGED <<users, joined, joinCalls, handles, opState, notified, rec, now,
                 restarts, slots, requests, response>>

WatcherEvent(r, o) ==
  LET w == watch[r][o] IN
  /\ w.pc = "stream"
  /\ \E e \in StreamItems(r) :
       \/ /\ e = "Canceled"
          /\ \E ok \in BOOLEAN :
               /\ invoices' = IF ok THEN set_invoice_state(invoices, r, Cancelled)
                               ELSE invoices
               /\ watch' = [watch EXCEPT ![r][o] =
                     DoneWatcher(IF ok THEN "cancelled" ELSE "cancel_err")]
       \/ /\ e = "Claimed"
          /\ watch' = [watch EXCEPT ![r][o] = [pc |-> "notify", out |-> "none"]]
          /\ UNCHANGED invoices
       \/ /\ e \notin {"Canceled", "Claimed"}
          /\ watch' = [watch EXCEPT ![r][o].out = "other"]
          /\ UNCHANGED invoices
  /\ UNCHANGED <<users, joined, joinCalls, handles, opState, notified, rec, now,
                 restarts, slots, requests, response>>

\* WatcherNotify with the state stored whatever notify_user returned
WatcherNotify_unconditional(r, o) ==
  LET w == watch[r][o] IN
  /\ w.pc = "notify"
  /\ \E sent \in BOOLEAN :
       LET ok == sent /\ get_federation_client(
                           FederationId_from_str(invoices[r].federation_id))
       IN /\ notified' = IF ok THEN [notified EXCEPT ![r] = @ + 1] ELSE notified
          /\ watch' = [watch EXCEPT ![r][o] = [@ EXCEPT !.pc = "persist"]]
  /\ UNCHANGED <<users, invoices, joined, joinCalls, handles, opState, rec, now,
                 restarts, slots, requests, response>>

\* notify_user(&state, &i, user).await in the Claimed arm.  It fails when the
\* row's federation has no client, or when the store or the message channel
\* fails; on Err the arm logs and breaks, on Ok it goes on to persist.
WatcherNotify(r, o) ==
  LET w == watch[r][o] IN
  /\ w.pc = "notify"
  /\ \E sent \in BOOLEAN :
       LET ok == sent /\ get_federation_client(
                           FederationId_from_str(invoices[r].federation_id))
       IN /\ notified' = IF ok THEN [notified EXCEPT ![r] = @ + 1] ELSE notified
          /\ watch' = [watch EXCEPT ![r][o] =
                IF ok THEN [@ EXCEPT !.pc = "persist"]
                ELSE DoneWatcher("notify_err")]
  /\ UNCHANGED <<users, invoices, joined, joinCalls, handles, opState, rec, now,
                 restarts, slots, requests, response>>

\* WatcherPersist that gives the payment up when the store fails
WatcherPersist_cancel_on_err(r, o) ==
  LET w == watch[r][o] IN
  /\ w.pc = "persist"
  /\ \E ok \in BOOLEAN :
       /\ invoices' = [invoices EXCEPT ![r].state = IF ok THEN Settled ELSE Cancelled]
       /\ watch' = [watch EXCEPT ![r][o] =
             DoneWatcher(IF ok THEN "settled" ELSE "settle_err")]
  /\ UNCHANGED <<users, joined, joinCalls, handles, opState, notified, rec, now,
                 restarts, slots, requests, response>>

\* set_invoice_state(i, Settled) in the Ok arm of notify_user, then break.
WatcherPersist(r, o) ==
  LET w == watch[r][o] IN
  /\ w.pc = "persist"
  /\ \E ok \in BOOLEAN :
       /\ invoices' = IF ok THEN set_invoice_state(invoices, r, Settled)
                       ELSE invoices
       /\ watch' = [watch EXCEPT ![r][o] =
             DoneWatcher(IF ok THEN "settled" ELSE "settle_err")]
  /\ UNCHANGED <<users, joined, joinCalls, handles, opState, notified, rec, now,
                 restarts, slots, requests, response>>

\* StreamEnd that cancels the payment
StreamEnd_cancelling(r, o) ==
  LET w == watch[r][o] IN
  /\ w.pc = "stream"
  /\ ~Terminal(opState[r])
  /\ watch' = [watch EXCEPT ![r][o] = DoneWatcher("stream_end")]
  /\ invoices' = set_invoice_state(invoices, r, Cancelled)
  /\ UNCHANGED <<users, joined, joinCalls, handles, opState, notified,
                 rec, now, restarts, slots, requests, response>>

\* stream.next() yields None: the loop ends without touching the row.
StreamEnd(r, o) ==
  LET w == watch[r][o] IN
  /\ w.pc = "stream"
  /\ ~Terminal(opState[r])
  /\ watch' = [watch EXCEPT ![r][o] = DoneWatcher("stream_end")]
  /\ UNCHANGED <<users, invoices, joined, joinCalls, handles, opState, notified,
                 rec, now, restarts, slots, requests, response>>

\* ------------------------------------------------------------------------
\* Startup recovery (handle_pending_invoices)
\* ------------------------------------------------------------------------
\* itertools group_by: maximal runs of consecutive rows with the same key
RECURSIVE RunLength(_, _, _)
RunLength(invs, list, k) ==
  IF list = <<>> \/ invs[Head(list)].federation_id # k THEN 0
  ELSE 1 + RunLength(invs, Tail(list), k)

RECURSIVE group_by(_, _)
group_by(invs, list) ==
  IF list = <<>> THEN <<>>
  ELSE LET k == invs[Head(list)].federation_id
           n == RunLength(invs, list, k)
       IN <<[key |-> k, items |-> SubSeq(list, 1, n)]>>
          \o group_by(invs, SubSeq(list, n + 1, Len(list)))

\* collect::<HashMap<_, _>>: a later pair with the same key replaces the earlier
CollectHashMap(pairs) ==
  [k \in {pairs[i].key : i \in DOMAIN pairs} |->
     LET last == CHOOSE i \in DOMAIN pairs :
                   /\ pairs[i].key = k
                   /\ \A j \in DOMAIN pairs : pairs[j].key = k => j <= i
     IN pairs[last].items]

invoices_by_federation(invs, list) == CollectHashMap(group_by(invs, list))

\* The map without one key
Without(m, k) == [x \in DOMAIN m \ {k} |-> m[x]]

\* Where the task stands once `todo` is what remains of the outer loop
AfterGroup(todo) == IF DOMAIN todo = {} THEN "done" ELSE "loop"

\* db.get_pending_invoices()?, then the grouping.  The store returns the
\* pending rows in an order of its choosing; an Err ends the task.
RecoverLoad ==
  /\ rec.pc = "idle"
  /\ \/ \E list \in Perms(PendingRows(invoices)) :
          LET todo == invoices_by_federation(invoices, list)
          IN rec' = [rec EXCEPT !.pc = AfterGroup(todo), !.todo = todo,
                                !.seen = Range(list)]
     \/ rec' = [rec EXCEPT !.pc = "failed"]
  /\ UNCHANGED <<users, invoices, joined, joinCalls, handles, opState, watch,
                 notified, now, restarts, slots, requests, response>>

\* One turn of the outer loop: a federation of the map, in the map's order;
\* its id is parsed and its client looked up, else its rows are passed over.
RecoverFederation(f) ==
  /\ rec.pc = "loop"
  /\ rec.cur = ""
  /\ f \in DOMAIN rec.todo
  /\ IF FederationId_from_str(f) = ""
     THEN rec' = [rec EXCEPT !.todo = Without(rec.todo, f),
                             !.pc = AfterGroup(Without(rec.todo, f))]
     ELSE IF get_federation_client(FederationId_from_str(f))
     THEN rec' = [rec EXCEPT !.cur = f, !.lookups[f] = @ + 1]
     ELSE rec' = [rec EXCEPT !.todo = Without(rec.todo, f),
                             !.pc = AfterGroup(Without(rec.todo, f)),
                             !.lookups[f] = @ + 1]
  /\ UNCHANGED <<users, invoices, joined, joinCalls, handles, opState, watch,
                 notified, now, restarts, slots, requests, response>>

\* NextRow that goes back to the outer loop after every row
NextRow_regrouping(r) ==
  LET rest == Tail(r.todo[r.cur])
      left == Without(r.todo, r.cur)
  IN IF rest # <<>> THEN [r EXCEPT !.todo[r.cur] = rest, !.cur = ""]
     ELSE [r EXCEPT !.todo = left, !.cur = "", !.pc = AfterGroup(left)]

\* What remains after the row at the head of the current group is done
NextRow(r) ==
  LET rest == Tail(r.todo[r.cur])
      left == Without(r.todo, r.cur)
  IN IF rest # <<>> THEN [r EXCEPT !.todo[r.cur] = rest]
     ELSE [r EXCEPT !.todo = left, !.cur = "", !.pc = AfterGroup(left)]

\* One turn of the inner loop: an expired row is set Cancelled (an Err of the
\* store returns from the task); otherwise the subscription is opened, the
\* owner loaded (an Err or no owner returns from the task) and a watcher
\* spawned; a subscription that cannot be opened passes the row over.
RecoverInvoice ==
  /\ rec.pc = "loop"
  /\ rec.cur # ""
  /\ LET id == Head(rec.todo[rec.cur]) IN
     IF is_expired(invoices[id].bolt11, now)
     THEN \E ok \in BOOLEAN :
            /\ invoices' = IF ok THEN set_invoice_state(invoices, id, Cancelled)
                            ELSE invoices
            /\ rec' = IF ok THEN NextRow(rec) ELSE [rec EXCEPT !.pc = "failed"]
            /\ UNCHANGED watch
     ELSE \E sub \in BOOLEAN, user \in BOOLEAN :
            /\ UNCHANGED invoices
            /\ IF ~sub
               THEN /\ rec' = [NextRow(rec) EXCEPT !.subErr = @ \cup {id}]
                    /\ UNCHANGED watch
               ELSE IF ~user THEN rec' = [rec EXCEPT !.pc = "failed"] /\ UNCHANGED watch
               ELSE /\ rec' = NextRow(rec)
                    /\ watch' = [watch EXCEPT ![id]["recovery"] = NewWatcher]
  /\ UNCHANGED <<users, joined, joinCalls, handles, opState, notified, now,
                 restarts, slots, requests, response>>

\* ------------------------------------------------------------------------
\* The lnurl callback and the process
\* ------------------------------------------------------------------------
Amounts == {1000}

\* lnurl_callback: resolves the account and its federation client, has the
\* federation issue a receivable, stores the Pending row, subscribes to the
\* operation and spawns the watcher.
Callback(u, a) ==
  /\ u \in DOMAIN users
  /\ get_federation_client(FederationId_from_str(users[u].federation_id))
  /\ Len(invoices) < MaxInvoices
  /\ LET id == Len(invoices) + 1 IN
     /\ invoices' = Append(invoices,
          [id |-> id, federation_id |-> users[u].federation_id,
           app_user_id |-> users[u].id, op_id |-> id, amount |-> a,
           bolt11 |-> [amount |-> a, expires_at |-> now], state |-> Pending])
     /\ watch' = [watch EXCEPT ![id]["callback"] = NewWatcher]
  /\ UNCHANGED <<users, joined, joinCalls, handles, opState, notified, rec, now,
                 restarts, slots, requests, response>>

\* The process stops and is started again: main sets up the registry, joins
\* the default federation, spawns the recovery task and serves.  Tasks of the
\* old process are gone; the store, the federations' operations and the
\* messages sent remain.  Of the other federations the new registry holds
\* those it loads again, which may be any of them.
Restart ==
  /\ restarts < MaxRestarts
  /\ restarts' = restarts + 1
  /\ watch' = [r \in Rows |-> [o \in Origins |-> NoWatcher]]
  /\ rec' = IdleRecovery
  /\ slots' = [s \in DOMAIN slots |-> NoSlot]
  /\ \E loaded \in SUBSET (joined \ {DefaultFederation}) :
       /\ joined' = loaded \cup {DefaultFederation}
       /\ handles' = [f \in Federations |-> IF f \in joined' THEN 1 ELSE 0]
  /\ joinCalls' = [joinCalls EXCEPT ![DefaultFederation] = @ + 1]
  /\ UNCHANGED <<users, invoices, opState, notified, now, requests, response>>

\* An account of an earlier run, registered with the default federation
SeedUser ==
  [id |-> 1, pubkey |-> "p1", name |-> <<"a", "l">>,
   federation_id |-> DefaultFederation,
   federation_invite_code |-> <<"fed1", DefaultFederation, "0">>,
   disabled_zaps |-> FALSE]

\* After main has set up the state: the default federation is joined
\* (main.rs:93), the recovery task is spawned and has not run yet.
InitCommon ==
  /\ invoices = <<>>
  /\ joined = {DefaultFederation}
  /\ joinCalls = [f \in Federations |-> IF f = DefaultFederation THEN 1 ELSE 0]
  /\ handles = [f \in Federations |-> IF f = DefaultFederation THEN 1 ELSE 0]
  /\ opState = [r \in Rows |-> "Created"]
  /\ watch = [r \in Rows |-> [o \in Origins |-> NoWatcher]]
  /\ notified = [r \in Rows |-> 0]
  /\ rec = IdleRecovery
  /\ now = 0
  /\ restarts = 0
  /\ slots = [s \in Slots |-> NoSlot]
  /\ requests = 0
  /\ response = NoResponse

InitPay == InitCommon /\ users = <<SeedUser>>

NextPay ==
  \/ \E u \in 1..1, a \in Amounts : Callback(u, a)
  \/ \E op \in Rows, e \in Events : FedEmit(op, e)
  \/ \E r \in Rows, o \in Origins : WatcherEvent(r, o)
  \/ \E r \in Rows, o \in Origins : WatcherNotify(r, o)
  \/ \E r \in Rows, o \in Origins : WatcherPersist(r, o)
  \/ \E r \in Rows, o \in Origins : StreamEnd(r, o)
  \/ RecoverLoad
  \/ \E f \in Federations : RecoverFederation(f)
  \/ RecoverInvoice
  \/ Tick
  \/ Restart

SpecPay == InitPay /\ [][NextPay]_vars

\* Startup recovery alone, on what an earlier run left behind: Pending rows
\* of accounts of either federation, expired or not, and a registry that
\* holds the default federation and may hold the other
OtherUser ==
  [id |-> 2, pubkey |-> "p2", name |-> <<"b", "o">>,
   federation_id |-> "fed_a",
   federation_invite_code |-> <<"fed1", "fed_a", "0">>,
   disabled_zaps |-> FALSE]

LeftPending(id, u, expires_at) ==
  [id |-> id, federation_id |-> u.federation_id, app_user_id |-> u.id,
   op_id |-> id, amount |-> 1000,
   bolt11 |-> [amount |-> 1000, expires_at |-> expires_at], state |-> Pending]

InitRec ==
  /\ users = <<SeedUser, OtherUser>>
  /\ \E n \in 0..MaxRows :
       \E owner \in [1..n -> {1, 2}], exp \in [1..n -> {0 - 1, 0}] :
         invoices = [i \in 1..n |-> LeftPending(i, users[owner[i]], exp[i])]
  /\ \E loaded \in SUBSET (Federations \ {DefaultFederation}) :
       /\ joined = loaded \cup {DefaultFederation}
       /\ handles = [f \in Federations |-> IF f \in joined THEN 1 ELSE 0]
  /\ joinCalls = [f \in Federations |-> IF f = DefaultFederation THEN 1 ELSE 0]
  /\ opState = [r \in Rows |-> "Created"]
  /\ watch = [r \in Rows |-> [o \in Origins |-> NoWatcher]]
  /\ notified = [r \in Rows |-> 0]
  /\ rec = IdleRecovery
  /\ now = 0
  /\ restarts = 0
  /\ slots = [s \in Slots |-> NoSlot]
  /\ requests = 0
  /\ response = NoResponse

NextRec ==
  \/ RecoverLoad
  \/ \E f \in Federations : RecoverFederation(f)
  \/ RecoverInvoice

SpecRec == InitRec /\ [][NextRec]_vars

\* ------------------------------------------------------------------------
\* Names, keys and the account table
\* ------------------------------------------------------------------------
MinNameLen == 2
MaxNameLen == 30

Lower == {"a", "b", "c", "d", "e", "f", "g", "h", "i", "j", "k", "l", "m", "n",
          "o", "p", "q", "r", "s", "t", "u", "v", "w", "x", "y", "z"}
Digit == {"0", "1", "2", "3", "4", "5", "6", "7", "8", "9"}
\* ALPHANUMERIC_REGEX: ^[a-z0-9-_.]+$
ALPHANUMERIC_REGEX(name) ==
  /\ Len(name) >= 1
  /\ \A i \in DOMAIN name : name[i] \in Lower \cup Digit \cup {"-", "_", "."}

\* is_valid_name that takes a name of one character
is_valid_name_from_one(name) ==
  IF ~(Len(name) >= 1 /\ Len(name) <= MaxNameLen) THEN FALSE
  ELSE ALPHANUMERIC_REGEX(name)

\* is_valid_name with the length test alone
is_valid_name_by_length(name) == Len(name) \in MinNameLen..MaxNameLen

is_valid_name(name) ==
  IF ~(Len(name) >= MinNameLen /\ Len(name) <= MaxNameLen) THEN FALSE
  ELSE ALPHANUMERIC_REGEX(name)

\* PublicKey::from_str succeeds on a well-formed key
PublicKeys == {"p1", "p2"}
PublicKey_from_str(s) == s \in PublicKeys

\* db.check_name_available / db.get_user_by_pubkey / db.insert_new_user: the
\* table holds a unique constraint on the name and one on the public key
check_name_available(us, name) == \A i \in DOMAIN us : us[i].name # name

\* get_user_by_pubkey that returns the first account of the table
get_user_by_pubkey_first(us, pk) == IF us = <<>> THEN 0 ELSE 1

get_user_by_pubkey(us, pk) ==
  IF \E i \in DOMAIN us : us[i].pubkey = pk
  THEN CHOOSE i \in DOMAIN us : us[i].pubkey = pk
  ELSE 0

insert_allowed(us, new) ==
  /\ \A i \in DOMAIN us : us[i].name # new.name
  /\ \A i \in DOMAIN us : us[i].pubkey # new.pubkey

insert_new_user(us, new) ==
  Append(us, [id |-> Len(us) + 1, pubkey |-> new.pubkey, name |-> new.name,
              federation_id |-> new.federation_id,
              federation_invite_code |-> new.federation_invite_code,
              disabled_zaps |-> FALSE])

\* update_user_federation that writes the row anew, its flag cleared
update_user_federation_resetting(us, i, federation_id, federation_invite_code) ==
  [us EXCEPT ![i].federation_id = federation_id,
             ![i].federation_invite_code = federation_invite_code,
             ![i].disabled_zaps = FALSE]

\* db.update_user_federation / db.disable_user_zaps: write the row of the
\* account passed in
update_user_federation(us, i, federation_id, federation_invite_code) ==
  [us EXCEPT ![i].federation_id = federation_id,
             ![i].federation_invite_code = federation_invite_code]

disable_user_zaps(us, i) == [us EXCEPT ![i].disabled_zaps = TRUE]

\* check_available that asks the store whatever the name
check_available_store_only(us, name) == check_name_available(us, name)

check_available(us, name) ==
  IF ~is_valid_name(name) THEN FALSE ELSE check_name_available(us, name)

\* names::Generator (Numbered) yields adjective-noun-number; the hyphens are
\* then removed: .replace('-', "")
GeneratedRaw == {<<"o", "x", "-", "7">>, <<"e", "l", "-", "3">>}
remove_hyphens(raw) == SelectSeq(raw, LAMBDA c : c # "-")

\* ------------------------------------------------------------------------
\* register (register.rs) and ensure_added_federation
\* ------------------------------------------------------------------------
\* The text of a store error, as the store words it
StoreErrorText == "connection refused"

RespondWhy(req, res, why, body) ==
  response' = [req |-> req, res |-> res, why |-> why, body |-> body]
Respond(req, res, body) == RespondWhy(req, res, "", body)

\* "validate user name & pubkey first"
register_validate(req) ==
  IF req.paid /\ ~is_valid_name(req.name) THEN "Unavailable"
  ELSE IF ~PublicKey_from_str(req.pubkey) THEN "Nostr Pubkey Invalid"
  ELSE "ok"

\* The availability check on name_to_register, then the parse of the
\* connection string
register_precheck(us, name, invite, dbok) ==
  IF ~dbok THEN "ServerError"
  ELSE IF ~check_name_available(us, name) THEN "Unavailable"
  ELSE IF InviteCode_from_str(invite) = NoInvite THEN "InvalidFederation"
  ELSE "ok"

\* From the name to register on: leaves with an error, or goes on to
\* ensure_added_federation with the federation id of the invite code
RegisterProceed(s, req, name, dbok) ==
  LET r == [req EXCEPT !.name = name, !.db = TRUE]
      p == register_precheck(users, name, req.invite, dbok)
  IN IF p # "ok"
     THEN /\ Respond(r, p, NoBody)
          /\ slots' = [slots EXCEPT ![s] = NoSlot]
     ELSE /\ slots' = [slots EXCEPT ![s] =
                [r EXCEPT !.pc = "has",
                          !.fed = InviteCode_from_str(req.invite).federation_id]]
          /\ UNCHANGED response

NameInputs == {<<"a", "l">>, <<"A", "l">>}
PubkeyInputs == PublicKeys \cup {"zz"}

RegisterRequests ==
  {[NoSlot EXCEPT !.op = "register", !.paid = pd, !.name = n, !.pubkey = pk,
                  !.invite = inv] :
     pd \in BOOLEAN, n \in NameInputs \cup {<<>>}, pk \in PubkeyInputs,
     inv \in InviteStrings}

\* register, up to its first await: validation, the name (requested, or
\* left to generate_random_name), the availability check, the invite code
RegisterStart(s, req) ==
  /\ requests < MaxRequests
  /\ s = requests + 1
  /\ req.paid = (req.name # <<>>)
  /\ requests' = requests + 1
  /\ LET v == register_validate(req) IN
     IF v # "ok"
     THEN Respond(req, v, NoBody) /\ UNCHANGED slots
     ELSE IF ~req.paid
     THEN slots' = [slots EXCEPT ![s] = [req EXCEPT !.pc = "gen"]]
          /\ UNCHANGED response
     ELSE \E dbok \in BOOLEAN : RegisterProceed(s, req, req.name, dbok)
  /\ UNCHANGED <<users, invoices, joined, joinCalls, handles, opState, watch,
                 notified, rec, now, restarts>>

\* generate_random_name that returns its candidate without check_available
generate_random_name_unchecked(s, raw) ==
  /\ slots[s].op = "register"
  /\ slots[s].pc = "gen"
  /\ RegisterProceed(s, slots[s], remove_hyphens(raw), TRUE)
  /\ UNCHANGED <<users, invoices, joined, joinCalls, handles, opState, watch,
                 notified, rec, now, restarts, requests>>

\* One turn of generate_random_name's loop: a candidate that is available is
\* returned, one that is not is dropped and the loop goes round again
generate_random_name(s, raw) ==
  LET new_name == remove_hyphens(raw) IN
  /\ slots[s].op = "register"
  /\ slots[s].pc = "gen"
  /\ \E dbok \in BOOLEAN :
       IF ~dbok
       THEN /\ Respond([slots[s] EXCEPT !.db = TRUE], "ServerError", NoBody)
            /\ slots' = [slots EXCEPT ![s] = NoSlot]
       ELSE IF check_available(users, new_name)
       THEN RegisterProceed(s, slots[s], new_name, dbok)
       ELSE slots' = [slots EXCEPT ![s].db = TRUE] /\ UNCHANGED response
  /\ UNCHANGED <<users, invoices, joined, joinCalls, handles, opState, watch,
                 notified, rec, now, restarts, requests>>

\* Where a handler goes once its federation is known to be joined
AfterEnsure(op) == IF op = "register" THEN "insert" ELSE "update"

\* ensure_added_federation that takes the federation as joined
ensure_added_federation_assumed(s) ==
  /\ slots[s].pc = "has"
  /\ slots' = [slots EXCEPT ![s].pc = AfterEnsure(slots[s].op)]
  /\ UNCHANGED <<users, invoices, joined, joinCalls, handles, opState, watch,
                 notified, rec, now, restarts, requests, response>>

\* ensure_added_federation without the look in the registry
ensure_added_federation_unchecked(s) ==
  /\ slots[s].pc = "has"
  /\ slots' = [slots EXCEPT ![s].pc = "join"]
  /\ UNCHANGED <<users, invoices, joined, joinCalls, handles, opState, watch,
                 notified, rec, now, restarts, requests, response>>

\* ensure_added_federation: check_has_federation(federation_id).await
ensure_added_federation(s) ==
  /\ slots[s].pc = "has"
  /\ slots' = [slots EXCEPT ![s].pc =
        IF ~check_has_federation(slots[s].fed) THEN "join"
        ELSE AfterEnsure(slots[s].op)]
  /\ UNCHANGED <<users, invoices, joined, joinCalls, handles, opState, watch,
                 notified, rec, now, restarts, requests, response>>

\* register_new_federation whose Err is logged and passed over
register_new_federation_ignoring_err(s) ==
  LET f == slots[s].fed IN
  /\ slots[s].pc = "join"
  /\ joinCalls' = [joinCalls EXCEPT ![f] = @ + 1]
  /\ \E ok \in BOOLEAN :
       /\ joined' = IF ok THEN joined \cup {f} ELSE joined
       /\ handles' = IF ok THEN [handles EXCEPT ![f] = @ + 1] ELSE handles
       /\ slots' = [slots EXCEPT ![s].pc = AfterEnsure(slots[s].op)]
       /\ UNCHANGED response
  /\ UNCHANGED <<users, invoices, opState, watch, notified, rec, now, restarts,
                 requests>>

\* ensure_added_federation: register_new_federation(invite_code).await, the
\* network join.  Ok puts the handle in the registry; Err is answered
\* InvalidFederation.
register_new_federation(s) ==
  LET f == slots[s].fed IN
  /\ slots[s].pc = "join"
  /\ joinCalls' = [joinCalls EXCEPT ![f] = @ + 1]
  /\ \E ok \in BOOLEAN :
       IF ok
       THEN /\ joined' = joined \cup {f}
            /\ handles' = [handles EXCEPT ![f] = @ + 1]
            /\ slots' = [slots EXCEPT ![s].pc = AfterEnsure(slots[s].op)]
            /\ UNCHANGED response
       ELSE /\ Respond(slots[s], "InvalidFederation", NoBody)
            /\ slots' = [slots EXCEPT ![s] = NoSlot]
            /\ UNCHANGED <<joined, handles>>
  /\ UNCHANGED <<users, invoices, opState, watch, notified, rec, now, restarts,
                 requests>>

\* The answer of register when insert_new_user returns Err
InsertErrorAnswer == "ServerError"

\* register: state.db.insert_new_user(new_user) and the answer
RegisterInsert(s) ==
  LET r == slots[s]
      new_user == [pubkey |-> r.pubkey, name |-> r.name, federation_id |-> r.fed,
                   federation_invite_code |-> r.invite]
  IN /\ r.op = "register"
     /\ r.pc = "insert"
     /\ \E dbok \in BOOLEAN :
          IF dbok /\ insert_allowed(users, new_user)
          THEN /\ users' = insert_new_user(users, new_user)
               /\ Respond(r, "ok", [NoBody EXCEPT !.name = r.name])
          ELSE /\ UNCHANGED users
               /\ RespondWhy(r, InsertErrorAnswer,
                     IF ~dbok THEN "store"
                     ELSE IF ~check_name_available(users, r.name) THEN "name_taken"
                     ELSE "pubkey_taken", NoBody)
     /\ slots' = [slots EXCEPT ![s] = NoSlot]
     /\ UNCHANGED <<invoices, joined, joinCalls, handles, opState, watch,
                    notified, rec, now, restarts, requests>>

\* ------------------------------------------------------------------------
\* The signed control endpoints (routes.rs)
\* ------------------------------------------------------------------------
REGISTRATION_CHECK_EVENT_KIND == 93186
NEW_FEDERATION_EVENT_KIND == 93187
DISABLE_ZAPS_EVENT_KIND == 93188
EventTimeTolerance == 120

Kinds == {REGISTRATION_CHECK_EVENT_KIND, NEW_FEDERATION_EVENT_KIND,
          DISABLE_ZAPS_EVENT_KIND}

\* nostr::Timestamp::now()
Timestamp_now == 1000 + now

\* `event.verify().is_err() && event.kind() != KIND`
bad_event(ev, kind) == ~ev.sig_ok /\ ev.kind # kind

\* `created_at < now - 120_i64 && created_at > now + 120_i64`
time_not_in_range(created_at, t) ==
  created_at < t - EventTimeTolerance /\ created_at > t + EventTimeTolerance

\* The two checks every control endpoint makes first
event_check(ev, kind, t) ==
  IF bad_event(ev, kind) THEN "Bad event"
  ELSE IF time_not_in_range(ev.created_at, t) THEN "Event time not in range"
  ELSE "ok"

\* Events as clients may send them: any author, any of the kinds, in or out
\* of the time window, signature good or bad
Skews == {0 - 121, 0, 121}

SignedEvents(contents) ==
  {[author |-> a, kind |-> k, created_at |-> Timestamp_now + d, content |-> c,
    sig_ok |-> sg] :
     a \in PublicKeys, k \in Kinds, d \in Skews, c \in contents, sg \in BOOLEAN}

\* Events as an honest client sends them to the endpoint of kind k
HonestEvents(k, contents) ==
  {[author |-> a, kind |-> k, created_at |-> Timestamp_now, content |-> c,
    sig_ok |-> TRUE] : a \in PublicKeys, c \in contents}

EventRequest(op, ev) == [NoSlot EXCEPT !.op = op, !.ev = ev, !.pubkey = ev.author]

\* change_federation, up to its first await: the event checks and the parse
\* of the content as an invite code
ChangeFederationStart(s, ev) ==
  LET req == EventRequest("change_federation", ev)
      c == event_check(ev, NEW_FEDERATION_EVENT_KIND, Timestamp_now)
      ic == InviteCode_from_str(ev.content)
  IN /\ requests < MaxRequests
     /\ s = requests + 1
     /\ requests' = requests + 1
     /\ IF c # "ok" THEN Respond(req, c, NoBody) /\ UNCHANGED slots
        ELSE IF ic = NoInvite
        THEN Respond(req, "InviteCode Invalid", NoBody) /\ UNCHANGED slots
        ELSE /\ slots' = [slots EXCEPT ![s] =
                   [req EXCEPT !.pc = "has", !.fed = ic.federation_id,
                               !.invite = InviteCode_to_string(ic),
                               !.joined0 = joined]]
             /\ UNCHANGED response
     /\ UNCHANGED <<users, invoices, joined, joinCalls, handles, opState, watch,
                    notified, rec, now, restarts>>

\* change_federation after ensure_added_federation: the account of the
\* author is looked up and its federation fields are written
ChangeFederationUpdate(s) ==
  LET r == [slots[s] EXCEPT !.db = TRUE]
      u == get_user_by_pubkey(users, r.pubkey)
  IN /\ r.op = "change_federation"
     /\ r.pc = "update"
     /\ \E dbok \in BOOLEAN :
          IF ~dbok
          THEN RespondWhy(r, StoreErrorText, "store", NoBody) /\ UNCHANGED users
          ELSE IF u = 0
          THEN Respond(r, "User not found", NoBody) /\ UNCHANGED users
          ELSE /\ users' = update_user_federation(users, u, r.fed, r.invite)
               /\ Respond(r, "ok", NoBody)
     /\ slots' = [slots EXCEPT ![s] = NoSlot]
     /\ UNCHANGED <<invoices, joined, joinCalls, handles, opState, watch,
                    notified, rec, now, restarts, requests>>

\* disable_zaps: the event checks, the account of the author, the flag
disable_zaps(ev) ==
  LET req == EventRequest("disable_zaps", ev)
      called == [req EXCEPT !.db = TRUE]
      c == event_check(ev, DISABLE_ZAPS_EVENT_KIND, Timestamp_now)
      u == get_user_by_pubkey(users, ev.author)
  IN /\ requests < MaxRequests
     /\ requests' = requests + 1
     /\ IF c # "ok" THEN Respond(req, c, NoBody) /\ UNCHANGED users
        ELSE \E dbok \in BOOLEAN :
          IF ~dbok
          THEN RespondWhy(called, StoreErrorText, "store", NoBody) /\ UNCHANGED users
          ELSE IF u = 0
          THEN Respond(called, "User not found", NoBody) /\ UNCHANGED users
          ELSE /\ users' = disable_user_zaps(users, u)
               /\ Respond(called, "ok", NoBody)
     /\ UNCHANGED <<invoices, joined, joinCalls, handles, opState, watch,
                    notified, rec, now, restarts, slots>>

\* check_registration_info: the event checks, then the account of the author
\* is read out (or the answer for no account)
check_registration_info(ev) ==
  LET req == EventRequest("check_registration_info", ev)
      called == [req EXCEPT !.db = TRUE]
      c == event_check(ev, REGISTRATION_CHECK_EVENT_KIND, Timestamp_now)
      u == get_user_by_pubkey(users, ev.author)
  IN /\ requests < MaxRequests
     /\ requests' = requests + 1
     /\ IF c # "ok" THEN Respond(req, c, NoBody)
        ELSE \E dbok \in BOOLEAN :
          IF ~dbok THEN RespondWhy(called, StoreErrorText, "store", NoBody)
          ELSE IF u = 0
          THEN Respond(called, "ok", [NoBody EXCEPT !.disabled_zaps = TRUE])
          ELSE IF FederationId_from_str(users[u].federation_id) = ""
          THEN Respond(called, "FederationId invalid", NoBody)
          ELSE Respond(called, "ok",
                 [NoBody EXCEPT
                    !.name = users[u].name,
                    !.federation_id = FederationId_from_str(users[u].federation_id),
                    !.disabled_zaps = users[u].disabled_zaps])
     /\ UNCHANGED <<users, invoices, joined, joinCalls, handles, opState, watch,
                    notified, rec, now, restarts, slots>>

\* check_username: the answer of check_available as the body, its Err as
\* the answer of handle_anyhow_error.  check_available calls the store for
\* a valid name and for no other.
check_username(s) ==
  LET username == slots[s].name
      req == [slots[s] EXCEPT !.db = is_valid_name(username)]
  IN /\ slots[s].op = "check_username"
     /\ slots[s].pc = "start"
     /\ \E dbok \in BOOLEAN :
          IF req.db /\ ~dbok
          THEN RespondWhy(req, StoreErrorText, "store", NoBody)
          ELSE Respond(req, "ok",
                 [NoBody EXCEPT !.available = check_available(users, username)])
     /\ slots' = [slots EXCEPT ![s] = NoSlot]
     /\ UNCHANGED <<users, invoices, joined, joinCalls, handles, opState, watch,
                    notified, rec, now, restarts, requests>>

\* Names as a client may send them: every string of up to MaxSampleLen of
\* the sample characters, and strings about the upper length limit
MaxSampleLen == 2
SampleChars == {"a", "l", "z", "0", "-", "_", ".", "A", " ", "!"}
RECURSIVE Strings(_)
Strings(n) ==
  IF n = 0 THEN {<<>>}
  ELSE LET shorter == Strings(n - 1)
       IN shorter \cup {Append(w, c) : w \in {x \in shorter : Len(x) = n - 1},
                                       c \in SampleChars}
LongNames ==
  {[i \in 1..n |-> c] : n \in (MaxNameLen - 1)..(MaxNameLen + 1),
                        c \in {"a", "A"}}
NameSamples == Strings(MaxSampleLen) \cup LongNames

\* The name check on a store that holds no, one or two accounts: a
\* check_username request for one of the names has come in
InitName ==
  /\ users \in {<<>>, <<SeedUser>>, <<SeedUser, OtherUser>>}
  /\ \E username \in NameSamples :
       slots = [s \in Slots |->
                  IF s = 1
                  THEN [NoSlot EXCEPT !.op = "check_username", !.pc = "start",
                                      !.name = username]
                  ELSE NoSlot]
  /\ invoices = <<>>
  /\ joined = {DefaultFederation}
  /\ joinCalls = [f \in Federations |-> IF f = DefaultFederation THEN 1 ELSE 0]
  /\ handles = [f \in Federations |-> IF f = DefaultFederation THEN 1 ELSE 0]
  /\ opState = [r \in Rows |-> "Created"]
  /\ watch = [r \in Rows |-> [o \in Origins |-> NoWatcher]]
  /\ notified = [r \in Rows |-> 0]
  /\ rec = IdleRecovery
  /\ now = 0
  /\ restarts = 0
  /\ requests = 0
  /\ response = NoResponse

NextName == \E s \in Slots : check_username(s)

SpecName == InitName /\ [][NextName]_vars

\* Registration with honest control traffic, from an empty account table
InitReg == InitCommon /\ users = <<>>

NextReg ==
  \/ \E req \in RegisterRequests : RegisterStart(requests + 1, req)
  \/ \E s \in Slots, raw \in GeneratedRaw : generate_random_name(s, raw)
  \/ \E s \in Slots : ensure_added_federation(s)
  \/ \E s \in Slots : register_new_federation(s)
  \/ \E s \in Slots : RegisterInsert(s)
  \/ \E ev \in HonestEvents(NEW_FEDERATION_EVENT_KIND, InviteStrings) :
       ChangeFederationStart(requests + 1, ev)
  \/ \E s \in Slots : ChangeFederationUpdate(s)
  \/ \E ev \in HonestEvents(DISABLE_ZAPS_EVENT_KIND, {<<>>}) : disable_zaps(ev)

SpecReg == InitReg /\ [][NextReg]_vars

\* Registration without a requested name.  generate_random_name is a loop
\* without an await, so a handler in it keeps running, and each turn draws
\* its candidate afresh from the generator's random source: a candidate that
\* stays possible is drawn in the end.
UnnamedRequests == {req \in RegisterRequests : ~req.paid /\ req.name = <<>>}

NextGen ==
  \/ \E req \in UnnamedRequests : RegisterStart(requests + 1, req)
  \/ \E s \in Slots, raw \in GeneratedRaw : generate_random_name(s, raw)
  \/ \E s \in Slots : ensure_added_federation(s)
  \/ \E s \in Slots : register_new_federation(s)
  \/ \E s \in Slots : RegisterInsert(s)

FairGen ==
  \A s \in Slots, raw \in GeneratedRaw : WF_vars(generate_random_name(s, raw))

SpecGen == InitReg /\ [][NextGen]_vars /\ FairGen

\* The control endpoints under arbitrary events, one request at a time, on a
\* table that holds the account or the two accounts of an earlier run
Idle == \A s \in Slots : slots[s] = NoSlot

InitCtl == InitCommon /\ users \in {<<SeedUser>>, <<SeedUser, OtherUser>>}

NextCtl ==
  \/ Idle /\ \E ev \in SignedEvents(InviteStrings) : ChangeFederationStart(requests + 1, ev)
  \/ \E s \in Slots : ensure_added_federation(s)
  \/ \E s \in Slots : register_new_federation(s)
  \/ \E s \in Slots : ChangeFederationUpdate(s)
  \/ Idle /\ \E ev \in SignedEvents({<<>>}) : disable_zaps(ev)
  \/ Idle /\ \E ev \in SignedEvents({<<>>}) : check_registration_info(ev)

SpecCtl == InitCtl /\ [][NextCtl]_vars

\* The four account operations together, one request at a time, with honest
\* events, on a table that holds the account of an earlier run
NextAcct ==
  \/ Idle /\ \E req \in RegisterRequests : RegisterStart(requests + 1, req)
  \/ \E s \in Slots, raw \in GeneratedRaw : generate_random_name(s, raw)
  \/ \E s \in Slots : ensure_added_federation(s)
  \/ \E s \in Slots : register_new_federation(s)
  \/ \E s \in Slots : RegisterInsert(s)
  \/ Idle /\ \E ev \in HonestEvents(NEW_FEDERATION_EVENT_KIND, InviteStrings) :
               ChangeFederationStart(requests + 1, ev)
  \/ \E s \in Slots : ChangeFederationUpdate(s)
  \/ Idle /\ \E ev \in HonestEvents(DISABLE_ZAPS_EVENT_KIND, {<<>>}) :
               disable_zaps(ev)
  \/ Idle /\ \E ev \in HonestEvents(REGISTRATION_CHECK_EVENT_KIND, {<<>>}) :
               check_registration_info(ev)

InitAcct == InitCommon /\ users = <<SeedUser>>

SpecAcct == InitAcct /\ [][NextAcct]_vars


\* lnurl verify: reports the row's state as settled or not
verify(invs, id) == [settled |-> invs[id].state = Settled]

\* ------------------------------------------------------------------------
\* The payment-protocol endpoints (routes.rs)
\* ------------------------------------------------------------------------
\* LnUrlErrorResponse: the body {status: ERROR, reason} under StatusCode::OK
LnUrlErrorResponse(req, reason) == RespondWhy(req, "ERROR", reason, NoBody)

\* The answer of the Query extractor for a query string that does not
\* deserialize into LnurlCallbackParams: 400 with this text, and the handler
\* is not run
QueryRejection == "Failed to deserialize query string"

\* amount: Option<u64>, None
NoAmount == 0 - 1

DigitValue(c) == CHOOSE n \in 0..9 : ToString(n) = c

RECURSIVE u64_from_str(_)
u64_from_str(t) ==
  IF t = <<>> THEN 0
  ELSE 10 * u64_from_str(SubSeq(t, 1, Len(t) - 1)) + DigitValue(t[Len(t)])

\* Query<LnurlCallbackParams>: the amount is absent, or a u64 in decimal
Query_from_str(q) ==
  IF ~q.given THEN [ok |-> TRUE, amount |-> NoAmount]
  ELSE IF q.amount # <<>> /\ \A i \in DOMAIN q.amount : q.amount[i] \in Digit
  THEN [ok |-> TRUE, amount |-> u64_from_str(q.amount)]
  ELSE [ok |-> FALSE, amount |-> NoAmount]

AmountTexts == {<<"1", "0", "0", "0">>, <<"0">>, <<"a", "b", "c">>, <<>>}
Queries == {NoQuery} \cup {[given |-> TRUE, amount |-> t] : t \in AmountTexts}

\* db.get_user_by_name
get_user_by_name(us, name) ==
  IF \E i \in DOMAIN us : us[i].name = name
  THEN CHOOSE i \in DOMAIN us : us[i].name = name
  ELSE 0

\* lnurlp::well_known_lnurlp / lnurl_callback / verify: why the call fails,
\* or "ok"
well_known_lnurlp(u, dbok) ==
  IF ~dbok THEN StoreErrorText
  ELSE IF u = 0 THEN "NotFound"
  ELSE "ok"

lnurl_callback(u, amount, dbok) ==
  IF ~dbok THEN StoreErrorText
  ELSE IF u = 0 THEN "NotFound"
  ELSE IF amount \notin Amounts THEN "AmountInvalid"
  ELSE IF ~get_federation_client(FederationId_from_str(users[u].federation_id))
  THEN "FederationError"
  ELSE "ok"

lnurl_verify(u, op_id, dbok) ==
  IF ~dbok THEN StoreErrorText
  ELSE IF u = 0 THEN "NotFound"
  ELSE IF ~(op_id \in DOMAIN invoices /\ invoices[op_id].app_user_id = users[u].id)
  THEN "NotFound"
  ELSE "ok"

Usernames == {<<"a", "l">>, <<"b", "o">>, <<"z", "z">>}

\* well_known_lnurlp_route: Ok is the discovery document, Err the envelope
well_known_lnurlp_route(username) ==
  LET req == [NoSlot EXCEPT !.op = "well_known_lnurlp", !.name = username,
                            !.db = TRUE]
      u == get_user_by_name(users, username)
  IN /\ \E dbok \in BOOLEAN :
          LET e == well_known_lnurlp(u, dbok) IN
          IF e # "ok" THEN LnUrlErrorResponse(req, e)
          ELSE Respond(req, "ok", [NoBody EXCEPT !.name = username])
     /\ UNCHANGED <<users, invoices, joined, joinCalls, handles, opState, watch,
                    notified, rec, now, restarts, slots, requests>>

\* lnurl_callback_route: the query string is extracted before the handler
\* runs; then Ok is the payment request (the Pending row is stored and its
\* watcher spawned), Err the envelope
lnurl_callback_route(username, q) ==
  LET req == [NoSlot EXCEPT !.op = "lnurl_callback", !.name = username,
                            !.query = q]
      called == [req EXCEPT !.db = TRUE]
      params == Query_from_str(q)
      u == get_user_by_name(users, username)
      id == Len(invoices) + 1
  IN /\ IF ~params.ok
        THEN Respond(req, QueryRejection, NoBody) /\ UNCHANGED <<invoices, watch>>
        ELSE \E dbok \in BOOLEAN :
          LET e == lnurl_callback(u, params.amount, dbok) IN
          IF e # "ok"
          THEN LnUrlErrorResponse(called, e) /\ UNCHANGED <<invoices, watch>>
          ELSE /\ Len(invoices) < MaxInvoices
               /\ invoices' = Append(invoices,
                    [id |-> id, federation_id |-> users[u].federation_id,
                     app_user_id |-> users[u].id, op_id |-> id,
                     amount |-> params.amount,
                     bolt11 |-> [amount |-> params.amount, expires_at |-> now],
                     state |-> Pending])
               /\ watch' = [watch EXCEPT ![id]["callback"] = NewWatcher]
               /\ Respond([called EXCEPT !.op_id = id], "ok", NoBody)
     /\ UNCHANGED <<users, joined, joinCalls, handles, opState, notified, rec,
                    now, restarts, slots, requests>>

\* lnurl_verify_route: Ok is the row's state, Err the envelope
lnurl_verify_route(username, op_id) ==
  LET req == [NoSlot EXCEPT !.op = "lnurl_verify", !.name = username,
                            !.op_id = op_id, !.db = TRUE]
      u == get_user_by_name(users, username)
  IN /\ \E dbok \in BOOLEAN :
          LET e == lnurl_verify(u, op_id, dbok) IN
          IF e # "ok" THEN LnUrlErrorResponse(req, e)
          ELSE Respond(req, "ok",
                 [NoBody EXCEPT !.settled = verify(invoices, op_id).settled])
     /\ UNCHANGED <<users, invoices, joined, joinCalls, handles, opState, watch,
                    notified, rec, now, restarts, slots, requests>>

\* The payment-protocol endpoints on a store of two accounts that holds no
\* row or one row of an earlier run
InitLn ==
  /\ users = <<SeedUser, OtherUser>>
  /\ \/ invoices = <<>>
     \/ \E st \in {Pending, Settled, Cancelled} :
          invoices = <<[LeftPending(1, SeedUser, 0) EXCEPT !.state = st]>>
  /\ \E loaded \in SUBSET (Federations \ {DefaultFederation}) :
       /\ joined = loaded \cup {DefaultFederation}
       /\ handles = [f \in Federations |-> IF f \in joined THEN 1 ELSE 0]
  /\ joinCalls = [f \in Federations |-> IF f = DefaultFederation THEN 1 ELSE 0]
  /\ opState = [r \in Rows |-> "Created"]
  /\ watch = [r \in Rows |-> [o \in Origins |-> NoWatcher]]
  /\ notified = [r \in Rows |-> 0]
  /\ rec = IdleRecovery
  /\ now = 0
  /\ restarts = 0
  /\ slots = [s \in Slots |-> NoSlot]
  /\ requests = 0
  /\ response = NoResponse

NextLn ==
  \/ \E username \in Usernames : well_known_lnurlp_route(username)
  \/ \E username \in Usernames, q \in Queries : lnurl_callback_route(username, q)
  \/ \E username \in Usernames, op_id \in 0..MaxRows :
       lnurl_verify_route(username, op_id)

SpecLn == InitLn /\ [][NextLn]_vars

\* ------------------------------------------------------------------------
\* Claims on the payment lifecycle
\* ------------------------------------------------------------------------
Terminals == {Settled, Cancelled}

\* C1: once a payment row is Settled or Cancelled, no later step changes its
\* state (rows only move Pending -> Settled or Pending -> Cancelled).
C1_TerminalIsFinal ==
  [][\A r \in DOMAIN invoices :
       invoices[r].state \in Terminals => invoices'[r].state = invoices[r].state]_vars

\* C2: a row is Settled only if notify_user has completed successfully for
\* that payment before.
C2_SettledOnlyAfterNotify ==
  \A r \in DOMAIN invoices : invoices[r].state = Settled => notified[r] >= 1

C2_Witness == \E r \in DOMAIN invoices : invoices[r].state = Settled /\ notified[r] = 1

\* C3: the notifier succeeds at most once for a payment (the "never twice"
\* half of exactly-once delivery), whatever the failures and restarts.
C3_DeliveredOnce == \A r \in Rows : notified[r] <= 1

\* C4: once the federation has emitted Claimed for a monitored payment the
\* row becomes Settled (verify reports settled = true).  Checked at the states
\* where nothing is left to settle it: a watcher of the row received Claimed
\* and ended on a failure, no watcher of the row is live and the recovery
\* task is over.
C4_ClaimedThenSettled ==
  \A r \in DOMAIN invoices :
    ( /\ opState[r] = "Claimed"
      /\ \E o \in Origins :
           watch[r][o] \in {DoneWatcher("notify_err"), DoneWatcher("settle_err")}
      /\ \A o \in Origins : ~Live(watch[r][o])
      /\ rec.pc \in {"done", "failed"} )
      => verify(invoices, r).settled

\* C5: a payment row never has two live watchers.
C5_OneWatcherPerRow ==
  \A r \in Rows : ~(Live(watch[r]["callback"]) /\ Live(watch[r]["recovery"]))

\* ------------------------------------------------------------------------
\* Claims on the federation registry and on registration
\* ------------------------------------------------------------------------

\* C6: handlers that run ensure_added_federation concurrently for one
\* federation identifier never complete more than one network join for it,
\* so no identifier gets a second handle.
C6_OneJoinPerFederation == \A f \in Federations : handles[f] <= 1

\* C7, as stated: calls made one after the other for the same federation
\* perform at most one network join in total.
C7_AtMostOneJoinCall == \A f \in Federations : joinCalls[f] <= 1

\* C7, amended: with calls made one after the other, a call whose
\* federation the registry has goes on without a join; a call whose
\* federation it lacks makes exactly one join; a join is only ever made for
\* a federation the registry lacks, and at most one join per federation
\* succeeds (a failed join leaves the registry as it was, and the next call
\* joins again).
C7_IdempotentJoin ==
  [][/\ \A s \in Slots :
          (slots[s].pc = "has" /\ slots'[s] # slots[s]) =>
             /\ slots'[s].pc = IF slots[s].fed \in joined
                                THEN AfterEnsure(slots[s].op) ELSE "join"
             /\ joinCalls' = joinCalls
     /\ \A s \in Slots :
          (slots[s].pc = "join" /\ slots'[s] # slots[s]) =>
             joinCalls' = [joinCalls EXCEPT ![slots[s].fed] = @ + 1]
     /\ \A f \in Federations :
          /\ joinCalls'[f] # joinCalls[f] => f \notin joined
          /\ handles'[f] <= 1]_vars

C7_Witness ==
  \E s \in Slots :
    /\ slots[s].op = "change_federation"
    /\ slots[s].pc = "update"
    /\ slots[s].fed = "fed_a"
    /\ \E i \in DOMAIN users : users[i].federation_id = "fed_a"
    /\ joinCalls["fed_a"] = 1
    /\ requests >= 2

\* C8: a register call that passed the availability check and lost the name
\* to a concurrent register at insert time is answered Unavailable.
C8_LoserGetsUnavailable ==
  response.why = "name_taken" => response.res = "Unavailable"

\* C9: no two accounts share a name, no two accounts share a public key, and
\* every stored name has 2..30 characters from [a-z0-9-_.].
C9_AccountsUniqueAndValid ==
  /\ \A i, j \in DOMAIN users :
       i # j => users[i].name # users[j].name /\ users[i].pubkey # users[j].pubkey
  /\ \A i \in DOMAIN users :
       /\ Len(users[i].name) \in 2..30
       /\ \A k \in DOMAIN users[i].name :
            users[i].name[k] \in Lower \cup Digit \cup {"-", "_", "."}

C9_Witness ==
  /\ Len(users) = 1
  /\ response.req.op = "register"
  /\ response.why \in {"name_taken", "pubkey_taken"}

\* ------------------------------------------------------------------------
\* Claims on the control endpoints
\* ------------------------------------------------------------------------
ControlOps == {"check_registration_info", "change_federation", "disable_zaps"}

\* created_at lies more than 120 units before or after the server's time
Stale(ev) ==
  \/ ev.created_at < Timestamp_now - EventTimeTolerance
  \/ ev.created_at > Timestamp_now + EventTimeTolerance

\* C10: a control-endpoint call whose created_at is more than 120 units
\* from now is rejected and writes no account, whatever its signature.
C10_StaleRejected ==
  [][(response' # response /\ response'.req.op \in ControlOps
        /\ Stale(response'.req.ev))
       => (response'.res # "ok" /\ users' = users)]_vars

\* C11: a control-endpoint call whose signature does not verify is rejected
\* with Bad event, whatever its kind: it is not answered from the account
\* table and writes no account.
C11_BadSignatureRejected ==
  [][(response' # response /\ response'.req.op \in ControlOps
        /\ ~response'.req.ev.sig_ok)
       => (response'.res # "ok" /\ users' = users)]_vars

\* ------------------------------------------------------------------------
\* Claims on startup recovery
\* ------------------------------------------------------------------------
\* The rows recovery loaded that were expired / were still to be watched
ExpiredLoaded == {r \in rec.seen : is_expired(invoices[r].bolt11, now)}
Resolvable(r) == get_federation_client(FederationId_from_str(invoices[r].federation_id))

\* C12: when recovery has run to its end, every row it loaded that was
\* expired is Cancelled, whether its federation resolves or not.
C12_ExpiredCancelled ==
  rec.pc = "done" =>
    \A r \in ExpiredLoaded : ~Resolvable(r) => invoices[r].state = Cancelled

\* C13: when recovery has run to its end, every row it loaded that is not
\* expired, whose federation resolves and whose subscription did not fail to
\* open has a watcher, in whatever order the store returned the rows.
C13_EveryRowWatched ==
  rec.pc = "done" =>
    \A r \in rec.seen \ ExpiredLoaded :
      (Resolvable(r) /\ r \notin rec.subErr) => watch[r]["recovery"] # NoWatcher

\* C14: a run of recovery resolves the handle of a federation at most once,
\* however many pending rows the federation has.
C14_OneLookupPerFederation == \A f \in Federations : rec.lookups[f] <= 1

C14_Witness ==
  /\ rec.pc = "done"
  /\ \E f \in Federations :
       /\ rec.lookups[f] = 1
       /\ \E r1, r2 \in rec.seen :
            /\ r1 # r2
            /\ invoices[r1].federation_id = f /\ invoices[r2].federation_id = f
            /\ watch[r1]["recovery"] # NoWatcher /\ watch[r2]["recovery"] # NoWatcher

\* C15: a failure on one pending row does not keep recovery from the other
\* rows: when the task has ended on a failure past the load, no row other
\* than the failing one is left unvisited.
C15_FailureIsPerRow ==
  (rec.pc = "failed" /\ rec.cur # "") =>
    (DOMAIN rec.todo = {rec.cur} /\ Len(rec.todo[rec.cur]) = 1)

\* ------------------------------------------------------------------------
\* Claims on the watcher's handling of events
\* ------------------------------------------------------------------------

\* C16: a watcher whose notify_user fails ends with the row and the
\* deliveries as they were; a watcher whose write of Settled fails ends with
\* the row as it was; and a watcher that has called notify_user never goes
\* back to the stream or to notify_user.
C16_FailureLeavesRow ==
  [][\A r \in Rows : \A o \in Origins :
       /\ (watch[r][o].pc = "notify" /\ watch'[r][o] = DoneWatcher("notify_err"))
            => (invoices' = invoices /\ notified' = notified)
       /\ (watch[r][o].pc = "persist" /\ watch'[r][o] = DoneWatcher("settle_err"))
            => invoices' = invoices
       /\ watch[r][o].pc \in {"persist", "done"}
            => watch'[r][o].pc \notin {"stream", "notify"}]_vars

C16_Witness ==
  \E r \in DOMAIN invoices :
    /\ watch[r]["callback"] = DoneWatcher("notify_err")
    /\ invoices[r].state = Pending
    /\ notified[r] = 0

\* C17, as stated: a watcher that has handled Canceled has left the row
\* Cancelled.
C17_CanceledMakesCancelled ==
  \A r \in DOMAIN invoices : \A o \in Origins :
    watch[r][o] \in {DoneWatcher("cancelled"), DoneWatcher("cancel_err")}
      => invoices[r].state = Cancelled

\* C17, amended: a watcher that receives Canceled writes Cancelled and ends;
\* if the store refuses the write it ends with the row as it was.  Either
\* way it stays ended, and there is no delivery for a cancelled operation.
C17_CanceledHandled ==
  [][\A r \in Rows : \A o \in Origins :
       /\ (watch[r][o].pc = "stream" /\ watch'[r][o] = DoneWatcher("cancelled"))
            => (invoices' = [invoices EXCEPT ![r].state = Cancelled]
                /\ notified' = notified)
       /\ (watch[r][o].pc = "stream" /\ watch'[r][o] = DoneWatcher("cancel_err"))
            => (invoices' = invoices /\ notified' = notified)
       /\ watch[r][o] \in {DoneWatcher("cancelled"), DoneWatcher("cancel_err")}
            => watch'[r][o] \in {watch[r][o], NoWatcher}
       /\ opState[r] = "Canceled"
            => (notified'[r] = notified[r] /\ watch'[r][o].pc # "notify")]_vars

C17_Witness ==
  \E r \in DOMAIN invoices :
    /\ opState[r] = "Canceled"
    /\ watch[r]["callback"] = DoneWatcher("cancelled")
    /\ invoices[r].state = Cancelled
    /\ notified[r] = 0

\* C18: a watcher that passes over an event other than Claimed and Canceled
\* changes no row and delivers nothing, and it is still listening afterwards.
C18_OtherEventsIgnored ==
  [][\A r \in Rows : \A o \in Origins :
       /\ watch'[r][o].out = "other" => watch'[r][o].pc = "stream"
       /\ (watch[r][o].pc = "stream" /\ watch'[r][o].pc = "stream"
             /\ watch'[r][o] # watch[r][o])
            => (invoices' = invoices /\ notified' = notified)]_vars

C18_Witness ==
  \E r \in DOMAIN invoices :
    /\ watch[r]["callback"] = [pc |-> "stream", out |-> "other"]
    /\ opState[r] = "Claimed"
    /\ invoices[r].state = Pending

\* C19: while the process runs, a watcher ends only once the operation is
\* Claimed or Canceled or because its stream ended; a watcher whose stream
\* ended leaves every row as it was.
C19_EndsOnTerminalOrStreamEnd ==
  [][\A r \in Rows : \A o \in Origins :
       (Live(watch[r][o]) /\ ~Live(watch'[r][o]) /\ restarts' = restarts)
         => /\ watch'[r][o].pc = "done"
            /\ \/ opState[r] \in {"Claimed", "Canceled"}
               \/ (watch'[r][o] = DoneWatcher("stream_end") /\ invoices' = invoices)]_vars

C19_Witness ==
  \E r \in DOMAIN invoices :
    /\ watch[r]["callback"] = DoneWatcher("stream_end")
    /\ invoices[r].state = Pending
    /\ opState[r] = "Created"

\* ------------------------------------------------------------------------
\* Claims on the outcomes of register
\* ------------------------------------------------------------------------

\* C20: a register call whose join fails is answered InvalidFederation and
\* leaves the accounts and the registry as they were; no account is ever
\* stored with a federation the registry does not hold.
C20_FailedJoinLeavesNothing ==
  [][/\ \A s \in Slots :
          (slots[s].op = "register" /\ slots[s].pc = "join" /\ slots'[s] = NoSlot)
            => /\ response'.res = "InvalidFederation"
               /\ response'.req = slots[s]
               /\ users' = users
               /\ joined' = joined
               /\ handles' = handles
     /\ \A s \in Slots :
          (slots[s].pc = "join" /\ slots'[s].pc \in {"insert", "update"})
            => slots[s].fed \in joined'
     /\ \A i \in DOMAIN users' : users'[i].federation_id \in joined']_vars

C20_Witness ==
  /\ response.req.op = "register"
  /\ response.req.pc = "join"
  /\ response.res = "InvalidFederation"
  /\ response.req.fed \notin joined
  /\ users = <<>>


\* ------------------------------------------------------------------------
\* Claims on validation, answers and frames
\* ------------------------------------------------------------------------
\* A request that carries a validation error: for register a requested name
\* that is not valid, a public key or a connection string that does not
\* parse; for change_federation a content that does not parse
ValidationError(req) ==
  \/ /\ req.op = "register"
     /\ \/ req.paid /\ ~is_valid_name(req.name)
        \/ ~PublicKey_from_str(req.pubkey)
        \/ InviteCode_from_str(req.invite) = NoInvite
  \/ /\ req.op = "change_federation"
     /\ InviteCode_from_str(req.ev.content) = NoInvite

\* C21: a register or change_federation request that carries a validation
\* error is answered with an error, and by then its handler has called
\* neither the store nor the federation registry.
C21_ValidationBeforeCalls ==
  ValidationError(response.req) =>
    /\ response.res # "ok"
    /\ ~response.req.db
    /\ response.req.fed = ""


\* The names the interface admits: 2 to 30 characters, each a lowercase
\* ASCII letter, a digit, '-', '_' or '.'
NamePattern(name) ==
  /\ Len(name) >= 2
  /\ Len(name) <= 30
  /\ \A i \in 1..Len(name) : name[i] \in Lower \cup Digit \cup {"-", "_", "."}

\* C22: on a store without accounts and without errors, check_username
\* finds a name available exactly when it has 2 to 30 characters, each a
\* lowercase letter, a digit, '-', '_' or '.': is_valid_name is true of these
\* names and of no other (not of the empty name, a name of 1 or of 31
\* characters, one with an uppercase letter, a blank or another symbol).
C22_ValidExactlyPattern ==
  (response.req.op = "check_username" /\ users = <<>> /\ response.res = "ok")
    => (response.body.available <=> NamePattern(response.req.name))

C22_Witness ==
  /\ response.req.op = "check_username"
  /\ users = <<>>
  /\ Len(response.req.name) = MaxNameLen
  /\ response.body.available

\* C23: check_available answers false for a name that is not valid and
\* does not call the store for it; for a valid name it calls the store and
\* answers what the store answers: true when no account has the name, false
\* when one has.
C23_CheckAvailable ==
  response.req.op = "check_username" =>
    IF ~NamePattern(response.req.name)
    THEN /\ response.res = "ok"
         /\ ~response.body.available
         /\ ~response.req.db
    ELSE /\ response.req.db
         /\ response.res = "ok" =>
              (response.body.available <=>
                 \A i \in DOMAIN users : users[i].name # response.req.name)

C23_Witness ==
  /\ response.req.op = "check_username"
  /\ response.res = "ok"
  /\ response.req.db
  /\ ~response.body.available
  /\ \E i \in DOMAIN users : users[i].name = response.req.name


LnurlOps == {"well_known_lnurlp", "lnurl_callback", "lnurl_verify"}

\* C24: every answer of a payment-protocol endpoint (discovery, callback,
\* verify) is a well-formed envelope under a successful transport status:
\* the result, or the body {status: ERROR, reason}; never a bare transport
\* error.
C24_AlwaysEnvelope ==
  response.req.op \in LnurlOps => response.res \in {"ok", "ERROR"}


\* C25: the text answered for a store or federation error comes from a
\* fixed set of generic messages and is never the text of the underlying
\* error, neither as the body of a transport error nor as the reason of an
\* envelope.
C25_GenericErrorText ==
  /\ response.res # StoreErrorText
  /\ response.res = "ERROR" => response.why # StoreErrorText


\* Some candidate of the generator is free in the store
CandidateAvailable ==
  \E raw \in GeneratedRaw :
    \A i \in DOMAIN users : users[i].name # remove_hyphens(raw)

C27_AccountFederationJoined ==
  \A i \in DOMAIN users :
    /\ users[i].federation_id \in joined
    /\ handles[users[i].federation_id] >= 1

C27_Witness ==
  /\ Len(users) = 1
  /\ users[1].federation_id # DefaultFederation
  /\ response.req.op = "change_federation"
  /\ response.res = "ok"


\* C28: the watchers and the recovery task change nothing of a payment row
\* but its lifecycle state: the amount, the owning account, the federation
\* id, the operation id and the payment request are as at creation, and no
\* row is ever deleted.
C28_OnlyStateChanges ==
  [][\A r \in DOMAIN invoices :
       /\ r \in DOMAIN invoices'
       /\ invoices'[r].id = invoices[r].id
       /\ invoices'[r].amount = invoices[r].amount
       /\ invoices'[r].app_user_id = invoices[r].app_user_id
       /\ invoices'[r].federation_id = invoices[r].federation_id
       /\ invoices'[r].op_id = invoices[r].op_id
       /\ invoices'[r].bolt11 = invoices[r].bolt11]_vars

C28_Witness ==
  \E r \in DOMAIN invoices :
    /\ invoices[r].state = Cancelled
    /\ opState[r] = "Created"
    /\ rec.pc = "done"
    /\ invoices[r].amount = invoices[r].bolt11.amount


\* C29: a change_federation call that is answered User not found has no
\* side effect: the accounts are untouched and the registry holds the
\* federations it held when the call came in.
C29_NotFoundNoEffect ==
  [][(/\ response' # response
      /\ response'.req.op = "change_federation"
      /\ response'.res = "User not found")
       => /\ users' = users
          /\ joined' = response'.req.joined0]_vars


\* C30: change_federation and disable_zaps write the account whose public
\* key is the author of the event and no other account; a change_federation
\* that succeeds leaves that account with the federation id and the invite
\* code derived from the content of the event and with its name, public key
\* and notification flag as they were; disable_zaps changes the flag alone.
C30_OnlyAuthorsAccount ==
  [][LET req == response'.req
         ic == InviteCode_from_str(req.ev.content)
     IN /\ DOMAIN users' = DOMAIN users
        /\ \A j \in DOMAIN users :
             users'[j] # users[j] =>
               /\ response' # response
               /\ req.op \in {"change_federation", "disable_zaps"}
               /\ users[j].pubkey = req.ev.author
               /\ users'[j].id = users[j].id
               /\ users'[j].name = users[j].name
               /\ users'[j].pubkey = users[j].pubkey
               /\ req.op = "disable_zaps" =>
                    users'[j] = [users[j] EXCEPT !.disabled_zaps = TRUE]
               /\ req.op = "change_federation" =>
                    users'[j].disabled_zaps = users[j].disabled_zaps
        /\ (/\ response' # response
            /\ req.op = "change_federation"
            /\ response'.res = "ok")
             => \E j \in DOMAIN users :
                  /\ users[j].pubkey = req.ev.author
                  /\ users'[j].federation_id = ic.federation_id
                  /\ users'[j].federation_invite_code =
                       <<"fed1", ic.federation_id, ic.peer>>]_vars

C30_Witness ==
  /\ Len(users) = 2
  /\ users[1] = SeedUser
  /\ users[2] = [OtherUser EXCEPT
                   !.federation_id = DefaultFederation,
                   !.federation_invite_code = <<"fed1", DefaultFederation, "0">>]
  /\ response.req.op = "change_federation"
  /\ response.req.ev.author = OtherUser.pubkey
  /\ response.res = "ok"


\* The message kind of each control endpoint
KindOf(op) ==
  IF op = "check_registration_info" THEN REGISTRATION_CHECK_EVENT_KIND
  ELSE IF op = "change_federation" THEN NEW_FEDERATION_EVENT_KIND
  ELSE DISABLE_ZAPS_EVENT_KIND

\* C31: a control endpoint accepts only events of its own kind: a validly
\* signed event that carries the kind of another endpoint is answered
\* Bad event and writes no account.
C31_ForeignKindRejected ==
  [][(/\ response' # response
      /\ response'.req.op \in ControlOps
      /\ response'.req.ev.sig_ok
      /\ response'.req.ev.kind # KindOf(response'.req.op))
       => (response'.res = "Bad event" /\ users' = users)]_vars


\* C32: the opt-out is one-way: an account whose disabled flag is true
\* keeps it true (and stays in the table) whatever register,
\* change_federation, disable_zaps and check_registration_info calls follow.
C32_OptOutOneWay ==
  [][\A j \in DOMAIN users :
       users[j].disabled_zaps =>
         (j \in DOMAIN users' /\ users'[j].disabled_zaps)]_vars

C32_Witness ==
  /\ users[1].disabled_zaps
  /\ users[1].federation_id # SeedUser.federation_id
  /\ response.req.op = "change_federation"
  /\ response.res = "ok"

====
